---- MODULE Spec2Model ----
(***************************************************************************)
(* Model of the text-based project archive: the serializer of              *)
(* project_generator.py and the parser / materializer of                   *)
(* project_utils/project_recreator.py; and of the comparator of two trees  *)
(* of project_utils/project_comparator.py, a tool of its own (SpecCompare).*)
(* Spec is the pipeline of the two main functions; SpecReparse is one      *)
(* ProjectRecreator that parses its source file a second time; SpecRace is *)
(* two create_project invocations on one destination.                      *)
(*                                                                         *)
(* Text is a sequence of tokens.  A token is one character of the text     *)
(* (" ", "\n", "(", ")", "/", "\\") or an indivisible run of characters    *)
(* that none of the program's patterns can split: a run of box-drawing     *)
(* dashes, a run of "=", a keyword such as "FILE START:", a file or        *)
(* directory name, a word of file content.                                 *)
(***************************************************************************)
EXTENDS Naturals, Integers, Sequences, FiniteSets, TLC

VARIABLES
    os_sep,          \* os.sep of the host platform: "/" (posix) or "\\" (nt)
    tree,            \* the scanned source tree: file path below the root -> content
    exclude_dirs,    \* generator input: set of strings
    exclude_files,   \* generator input: set of strings
    document,        \* content of the source document, NoDocument when absent
    structure,       \* lines of the structure block last rendered
    sections,        \* files that got a FILE section in the contents block
    pc,              \* pipeline state
    root_directory,  \* ProjectRecreator.root_directory
    file_contents,   \* ProjectRecreator.file_contents, in insertion order
    parse_result,    \* what parse_source_file returned
    strategy,        \* which content-recovery strategy filled file_contents
    strict_entries,  \* what the primary method stored (files_parsed of them)
    disk_dirs,       \* directories of the destination file system
    disk_files,      \* files of the destination file system: <<path, content>>
    target_root,     \* the output root the last create_project chose (or probed)
    files_created,
    files_failed,
    create_result,   \* what create_project returned
    written,         \* what the last create_project created or wrote
    roots,           \* the output roots of the create_project runs so far
    comparator       \* the ProjectComparator object, NoComparator before it is built

vars == <<os_sep, tree, exclude_dirs, exclude_files, document, structure,
          sections, pc, root_directory, file_contents, parse_result, strategy,
          strict_entries, disk_dirs, disk_files, target_root, files_created,
          files_failed, create_result, written, roots, comparator>>

----------------------------------------------------------------------------
(* Tokens *)

SP == " "
NL == "\n"
LP == "("
RP == ")"
SLASH == "/"
BSLASH == "\\"
RULE == "------"            \* the run of six box-drawing dashes of a marker
TEE == "|-- "               \* the connectors and indents of the tree drawing
ELBOW == "+-- "
PIPE == "|   "
BLANK == "    "
EQRUN == "==="              \* a run of "=" characters
FILE_START == "FILE START:"
FILE_END == "FILE END:"
STRUCT_FOR == "Directory Structure for:"
DIR_LABEL == "Directory:"
FILE_CONTENTS == "FILE CONTENTS"
BINARY_PLACEHOLDER == "[BINARY FILE - CONTENTS NOT SHOWN]"
PERMISSION_DENIED == "[Permission Denied]"
READ_ERROR == "[ERROR READING FILE: ...]"
DEFAULT_ROOT == "recreated_project"
COPY == "_copy"
PYCACHE == "__pycache__"
DOTDOT == ".."

Whitespace == {SP, NL}

----------------------------------------------------------------------------
(* Sequences and strings *)

Min(S) == CHOOSE x \in S : \A y \in S : x <= y
Max(S) == CHOOSE x \in S : \A y \in S : x >= y

Range(s) == {s[i] : i \in 1..Len(s)}

RECURSIVE Flatten(_)
\* "".join(parts)
Flatten(parts) ==
    IF parts = <<>> THEN <<>> ELSE Head(parts) \o Flatten(Tail(parts))

RECURSIVE JoinWith(_, _)
\* sepr.join(parts)
JoinWith(parts, sepr) ==
    IF parts = <<>> THEN <<>>
    ELSE IF Len(parts) = 1 THEN parts[1]
    ELSE parts[1] \o sepr \o JoinWith(Tail(parts), sepr)

\* s[a:b] of Python with 1-based inclusive ends
Slice(s, a, b) == IF a > b THEN <<>> ELSE SubSeq(s, a, b)

\* str.strip()
Strip(s) ==
    LET keep == {i \in 1..Len(s) : s[i] \notin Whitespace}
    IN  IF keep = {} THEN <<>> ELSE Slice(s, Min(keep), Max(keep))

\* s.find(sub): the first index at which sub occurs, 0 when absent
Find(s, sub) ==
    LET hits == {p \in 1..(Len(s) + 1 - Len(sub)) : Slice(s, p, p + Len(sub) - 1) = sub}
    IN  IF Len(sub) > Len(s) \/ hits = {} THEN 0 ELSE Min(hits)

StartsWith(s, sub) == Len(sub) <= Len(s) /\ Slice(s, 1, Len(sub)) = sub

\* s.replace(old, new) for one-character old and new
Replace(s, old, new) == [i \in 1..Len(s) |-> IF s[i] = old THEN new ELSE s[i]]

\* number of occurrences of the character c
Count(s, c) == Cardinality({i \in 1..Len(s) : s[i] = c})

\* sorted(S) for a set of numbers
Sorted(S) ==
    [k \in 1..Cardinality(S) |-> CHOOSE x \in S : Cardinality({y \in S : y < x}) = k - 1]

\* s.split(c) for a one-character separator: the list of pieces
SplitChar(s, c) ==
    LET cuts == Sorted({i \in 1..Len(s) : s[i] = c})
        from(k) == IF k = 1 THEN 1 ELSE cuts[k - 1] + 1
        upto(k) == IF k = Len(cuts) + 1 THEN Len(s) ELSE cuts[k] - 1
    IN  [k \in 1..(Len(cuts) + 1) |-> Slice(s, from(k), upto(k))]

----------------------------------------------------------------------------
(* Regular expressions (Python's re, backtracking semantics).              *)
(* A pattern is a sequence of items:                                       *)
(*   Lit(c)            the character c                                     *)
(*   Star(cls, g)      cls*   greedy,  Plus(cls, g)      cls+   greedy     *)
(*   LazyStar(cls, g)  cls*?  lazy,    LazyPlus(cls, g)  cls+?  lazy       *)
(*   Ref(g)            the backreference \g                                *)
(*   AtEnd             $                                                   *)
(* cls is a character class: "ws" is \s, "dot" is . without DOTALL, "any"  *)
(* is . under DOTALL, any other value is that one character.  g is the     *)
(* number of the capturing group the item fills, 0 for none.               *)

Lit(c) == [t |-> "lit", c |-> c, g |-> 0, min |-> 0]
Star(cls, g) == [t |-> "greedy", c |-> cls, g |-> g, min |-> 0]
Plus(cls, g) == [t |-> "greedy", c |-> cls, g |-> g, min |-> 1]
LazyStar(cls, g) == [t |-> "lazy", c |-> cls, g |-> g, min |-> 0]
LazyPlus(cls, g) == [t |-> "lazy", c |-> cls, g |-> g, min |-> 1]
Ref(g) == [t |-> "ref", c |-> "", g |-> g, min |-> 0]
AtEnd == [t |-> "end", c |-> "", g |-> 0, min |-> 0]

InClass(ch, cls) ==
    CASE cls = "ws" -> ch \in Whitespace
      [] cls = "dot" -> ch # NL
      [] cls = "any" -> TRUE
      [] OTHER -> ch = cls

\* the length of the longest run of cls characters that starts at p
RunLen(s, p, cls) ==
    IF cls = "any" THEN Len(s) + 1 - p
    ELSE CHOOSE n \in 0..(Len(s) + 1 - p) :
            /\ (p + n <= Len(s) => ~InClass(s[p + n], cls))
            /\ \A j \in p..(p + n - 1) : InClass(s[j], cls)

NoCaps == <<<<>>, <<>>, <<>>>>
NoMatch == [ok |-> FALSE, start |-> 0, end |-> 0, caps |-> NoCaps]

RECURSIVE Viable(_, _, _, _)
\* A necessary condition for the items from i on to match at p: the items up
\* to the next "." quantifier or backreference match.  It prunes the lengths
\* a quantifier has to try and changes no result.
Viable(re, i, s, p) ==
    IF i > Len(re) THEN TRUE
    ELSE LET it == re[i]
         IN  CASE it.t = "lit" ->
                    p <= Len(s) /\ s[p] = it.c /\ Viable(re, i + 1, s, p + 1)
               [] it.t = "end" ->
                    /\ (p = Len(s) + 1 \/ (p = Len(s) /\ s[p] = NL))
                    /\ Viable(re, i + 1, s, p)
               [] it.t = "ref" -> TRUE
               [] it.c \in {"any", "dot"} -> TRUE
               [] OTHER ->
                    \E m \in it.min..RunLen(s, p, it.c) : Viable(re, i + 1, s, p + m)

\* sorted(S, reverse=down) for a set of numbers
Ordered(S, down) ==
    [k \in 1..Cardinality(S) |->
        CHOOSE x \in S : Cardinality({y \in S : IF down THEN y > x ELSE y < x}) = k - 1]

\* For each "." quantifier i of the pattern, the positions q at which the
\* items after it are viable, as pairs <<i, q>>: the only ends the quantifier
\* has to try.
ViableEnds(re, s) ==
    LET dots == {i \in 1..Len(re) : re[i].t \in {"greedy", "lazy"} /\ re[i].c \in {"any", "dot"}}
    IN  {y : y \in {x \in dots \X (1..(Len(s) + 1)) : Viable(re, x[1] + 1, s, x[2])}}

RECURSIVE MatchAt(_, _, _, _, _, _), TryEach(_, _, _, _, _, _, _)
\* re.match of the items from i on at position p, with the groups captured so
\* far: the first match in backtracking order (greedy: longest first, lazy:
\* shortest first), or NoMatch.  via is ViableEnds(re, s).
MatchAt(re, via, i, s, p, caps) ==
    IF i > Len(re) THEN [ok |-> TRUE, start |-> p, end |-> p, caps |-> caps]
    ELSE
    LET it == re[i]
    IN  CASE it.t = "lit" ->
               IF p <= Len(s) /\ s[p] = it.c
               THEN MatchAt(re, via, i + 1, s, p + 1, caps) ELSE NoMatch
          [] it.t = "ref" ->
               LET w == caps[it.g]
               IN  IF p + Len(w) - 1 <= Len(s) /\ Slice(s, p, p + Len(w) - 1) = w
                   THEN MatchAt(re, via, i + 1, s, p + Len(w), caps) ELSE NoMatch
          [] it.t = "end" ->
               IF p = Len(s) + 1 \/ (p = Len(s) /\ s[p] = NL)
               THEN MatchAt(re, via, i + 1, s, p, caps) ELSE NoMatch
          [] OTHER ->
               LET mx == RunLen(s, p, it.c)
                   down == it.t = "greedy"
               IN  IF it.c \in {"any", "dot"}
                   THEN TryEach(re, via, i, s, p, caps,
                            Ordered({x[2] - p : x \in {e \in via : /\ e[1] = i
                                                                      /\ e[2] >= p + it.min
                                                                      /\ e[2] <= p + mx}}, down))
                   ELSE TryEach(re, via, i, s, p, caps,
                            [k \in 1..(mx + 1 - it.min) |->
                                IF down THEN mx + 1 - k ELSE it.min + k - 1] \o <<>>)

\* item i consumes the first of the lengths `order` with which the rest matches
TryEach(re, via, i, s, p, caps, order) ==
    IF order = <<>> THEN NoMatch
    ELSE LET n == Head(order)
             filled == IF re[i].g = 0 THEN caps
                       ELSE [caps EXCEPT ![re[i].g] = Slice(s, p, p + n - 1)]
         IN  CHOOSE x \in {IF r.ok THEN r ELSE TryEach(re, via, i, s, p, caps, Tail(order)) :
                              r \in {MatchAt(re, via, i + 1, s, p + n, filled)}} : TRUE

\* the matches of the pattern at the positions `begins`, given via
MatchesVia(re, s, via, begins) ==
    {m \in {[MatchAt(re, via, 1, s, p, NoCaps) EXCEPT !.start = p] : p \in begins} : m.ok}

\* all matches of the pattern, one for each position a match begins at (they
\* may overlap)
MatchesOf(re, s) ==
    MatchesVia(re, s, ViableEnds(re, s), {q \in 1..(Len(s) + 1) : Viable(re, 1, s, q)})

RECURSIVE Scan(_, _)
\* The successive, non-overlapping matches re.finditer yields from position
\* `from` on, given all matches.  The program's patterns match no empty string.
Scan(ms, from) ==
    LET later == {m \in ms : m.start >= from}
    IN  IF later = {} THEN <<>>
        ELSE LET first == CHOOSE m \in later : \A o \in later : m.start <= o.start
             IN  <<first>> \o Scan(ms, first.end)

\* re.finditer(re, s) as a sequence of match records
FindIter(re, s) == Scan(MatchesOf(re, s), 1)

\* the match that begins first
Leftmost(ms) ==
    IF ms = {} THEN NoMatch ELSE CHOOSE m \in ms : \A o \in ms : m.start <= o.start

\* re.search(re, s): the leftmost match or NoMatch
Search(re, s) == Leftmost(MatchesOf(re, s))

\* the pieces of s between the successive matches ms
Pieces(ms, s) ==
    LET from(k) == IF k = 1 THEN 1 ELSE ms[k - 1].end
        upto(k) == IF k = Len(ms) + 1 THEN Len(s) ELSE ms[k].start - 1
    IN  [k \in 1..(Len(ms) + 1) |-> Slice(s, from(k), upto(k))]

\* re.split(re, s) for a pattern without groups
Split(re, s) == Pieces(FindIter(re, s), s)

\* re.sub(re, '', s)
SubEmpty(re, s) == Flatten(Pieces(FindIter(re, s), s))

----------------------------------------------------------------------------
(* Paths: os.path of the host platform.  A path string is a sequence of    *)
(* tokens; posixpath splits at "/" only, ntpath at "/" and "\\".           *)

Separators(sep) == IF sep = BSLASH THEN {SLASH, BSLASH} ELSE {SLASH}

\* os.path.basename(p)
Basename(sep, p) ==
    LET cuts == {i \in 1..Len(p) : p[i] \in Separators(sep)}
    IN  IF cuts = {} THEN p ELSE Slice(p, Max(cuts) + 1, Len(p))

\* os.path.dirname(p): the head of os.path.split, trailing separators
\* stripped unless the head is the root
Dirname(sep, p) ==
    LET cuts == {i \in 1..Len(p) : p[i] \in Separators(sep)}
        head == IF cuts = {} THEN <<>> ELSE Slice(p, 1, Max(cuts))
        body == {i \in 1..Len(head) : head[i] \notin Separators(sep)}
    IN  IF body = {} THEN head ELSE Slice(head, 1, Max(body))

\* os.path.join(a, b)
PathJoin(sep, a, b) ==
    IF b # <<>> /\ b[1] \in Separators(sep) THEN b
    ELSE IF a = <<>> \/ a[Len(a)] \in Separators(sep) THEN a \o b
    ELSE a \o <<sep>> \o b

\* file_path.replace('\\', os.sep).replace('/', os.sep)
NormalizeSeps(sep, p) == Replace(Replace(p, BSLASH, sep), SLASH, sep)

----------------------------------------------------------------------------
(* ProjectRecreator: the parser *)

\* dict: a sequence of <<key, value>> pairs in insertion order
DictKeys(d) == {d[i][1] : i \in 1..Len(d)}
DictGet(d, k) == (CHOOSE i \in 1..Len(d) : d[i][1] = k) \* index of key k
DictValue(d, k) == d[DictGet(d, k)][2]
\* d[k] = v
DictSet(d, k, v) ==
    IF k \in DictKeys(d) THEN [d EXCEPT ![DictGet(d, k)] = <<k, v>>]
    ELSE Append(d, <<k, v>>)

RECURSIVE DictSetAll(_, _)
\* d[k] = v for each pair of the sequence kvs in turn
DictSetAll(d, kvs) ==
    IF kvs = <<>> THEN d
    ELSE DictSetAll(DictSet(d, kvs[1][1], kvs[1][2]), Tail(kvs))

\* r'Directory Structure for:\s*(.+)'
root_pattern == <<Lit(STRUCT_FOR), Star("ws", 0), Plus("dot", 1)>>

\* r'FILE START:.*?\((.+?)\)'
file_paths_pattern == <<Lit(FILE_START), LazyStar("dot", 0), Lit(LP), LazyPlus("dot", 1), Lit(RP)>>

\* r'...... FILE START:\s*(.*?)\s*\((.*?)\)\s*-+\s*(.*?)\s*-+\s*FILE END:\s*\1\s*\(\2\)'
\* compiled with re.DOTALL
file_pattern ==
    <<Lit(RULE), Lit(SP), Lit(FILE_START), Star("ws", 0), LazyStar("any", 1), Star("ws", 0),
      Lit(LP), LazyStar("any", 2), Lit(RP), Star("ws", 0), Plus(RULE, 0), Star("ws", 0),
      LazyStar("any", 3), Star("ws", 0), Plus(RULE, 0), Star("ws", 0), Lit(FILE_END),
      Star("ws", 0), Ref(1), Star("ws", 0), Lit(LP), Ref(2), Lit(RP)>>

\* r'=+\n\n...... FILE START:'
section_split_pattern == <<Plus(EQRUN, 0), Lit(NL), Lit(NL), Lit(RULE), Lit(SP), Lit(FILE_START)>>

\* r'\((.*?)\)'
header_path_pattern == <<Lit(LP), LazyStar("dot", 1), Lit(RP)>>

\* r'\(.*?\)\s*$'
trailing_path_pattern == <<Lit(LP), LazyStar("dot", 0), Lit(RP), Star("ws", 0), AtEnd>>

\* the root name parse_source_file derives from the match of the root line
\* and the matches of the FILE START lines
RootFrom(sep, root_match, file_paths) ==
    LET first_file_dir == Dirname(sep, file_paths[1].caps[1])
    IN  IF root_match.ok THEN Basename(sep, Strip(root_match.caps[1]))
        ELSE IF file_paths # <<>>
             THEN IF BSLASH \in Range(first_file_dir)
                  THEN SplitChar(first_file_dir, BSLASH)[1]
                  ELSE IF SLASH \in Range(first_file_dir)
                       THEN SplitChar(first_file_dir, SLASH)[1]
                       ELSE <<DEFAULT_ROOT>>
             ELSE <<DEFAULT_ROOT>>

\* the root name parse_source_file recovers from the document
RecoverRoot(sep, content) ==
    RootFrom(sep, Search(root_pattern, content), FindIter(file_paths_pattern, content))

\* the (file_path, file_content) pair stored for each match of file_pattern
StoredMatches(file_matches) ==
    [k \in 1..Len(file_matches) |->
        <<Strip(file_matches[k].caps[2]), Strip(file_matches[k].caps[3])>>]

\* the (file_path, file_content) pairs of the primary method, in match order
StrictEntries(content) == StoredMatches(FindIter(file_pattern, content))

\* the sections _parse_file_contents_alternative iterates over, from the
\* pieces of the split
SectionsOf(file_sections) ==
    LET first == file_sections[1]
        at == Find(first, <<FILE_START>>)
    IN  IF StartsWith(first, <<FILE_START>>) THEN file_sections
        ELSE IF at > 0
             THEN [file_sections EXCEPT ![1] = Slice(first, at, Len(first))]
             ELSE Tail(file_sections)

AlternativeSections(content) == SectionsOf(Split(section_split_pattern, content))

\* a faulty SectionResult that keeps a section without a FILE END marker;
\* C4_ParseFailsOnlyWhenMissing tells it from the program's
SectionResultUnclosed(section, first_line_end, file_path_match, content_end) ==
    IF Strip(section) = <<>> \/ first_line_end = 0 \/ ~file_path_match.ok
    THEN <<FALSE, <<>>, <<>>>>
    ELSE <<TRUE, Strip(file_path_match.caps[1]),
           Strip(Slice(section, first_line_end + 1, content_end - 1))>>

\* the header's path match and the cleaned content of one section
SectionResult(section, first_line_end, file_path_match, content_end) ==
    IF Strip(section) = <<>> \/ first_line_end = 0 \/ ~file_path_match.ok \/ content_end = 0
    THEN <<FALSE, <<>>, <<>>>>
    ELSE <<TRUE, Strip(file_path_match.caps[1]),
           Strip(SubEmpty(trailing_path_pattern,
                          Strip(Slice(section, first_line_end + 1, content_end - 1))))>>

\* the header line of a section: section[:first_line_end].strip()
HeaderLine(section, first_line_end) == Strip(Slice(section, 1, first_line_end - 1))

\* what one section contributes: <<TRUE, file_path, file_content>>, or
\* <<FALSE, .., ..>> when the section is skipped
AlternativeSection(section) ==
    SectionResult(section, Find(section, <<NL>>),
                  Search(header_path_pattern, HeaderLine(section, Find(section, <<NL>>))),
                  Find(section, <<RULE, SP, FILE_END>>))

\* the pairs of the sections that are not skipped, in order
KeptEntries(parsed) ==
    LET kept == Sorted({k \in 1..Len(parsed) : parsed[k][1]})
    IN  [j \in 1..Len(kept) |-> <<parsed[kept[j]][2], parsed[kept[j]][3]>>]

EachSection(file_sections) ==
    [k \in 1..Len(file_sections) |-> AlternativeSection(file_sections[k])]

\* the (file_path, file_content) pairs of the alternative method, in order
AlternativeEntries(content) == KeptEntries(EachSection(AlternativeSections(content)))

\* a faulty _parse_file_contents_robust that runs the alternative method
\* whatever the primary one parsed; C11_FallbackOnlyAfterZero tells it from
\* the program's
ParsedFilesBoth(content) ==
    CHOOSE r \in {[entries |-> strict \o AlternativeEntries(content),
                   strategy |-> "alternative", strict |-> strict] :
                      strict \in {StrictEntries(content)}} : TRUE

\* _parse_file_contents_robust: the pairs stored into file_contents, in
\* order, and the method that produced them (the alternative method runs
\* iff the primary one parsed no file)
ParsedFiles(content) ==
    CHOOSE r \in {IF Len(strict) = 0
                  THEN [entries |-> AlternativeEntries(content), strategy |-> "alternative",
                        strict |-> strict]
                  ELSE [entries |-> strict, strategy |-> "strict", strict |-> strict] :
                      strict \in {StrictEntries(content)}} : TRUE

ParsedEntries(content) == ParsedFiles(content).entries

----------------------------------------------------------------------------
(* The scanned tree.  A tree maps the path of each file below the scanned  *)
(* root, a sequence of names, to the file's content; its directories are   *)
(* the proper prefixes of those paths.                                     *)

ROOT_NAME == "proj"

\* os.path.abspath(parent_dir): the directory main scans
ParentDir(sep) ==
    IF sep = BSLASH THEN <<"C:", sep, "src", sep, ROOT_NAME>>
    ELSE <<sep, "src", sep, ROOT_NAME>>

\* the names of the trees, in the order sorted() puts them
NameOrder == <<"a.txt", "b.txt", "build", "c.txt", "skip.log", "sub">>

Rank(name) == CHOOSE i \in 1..Len(NameOrder) : NameOrder[i] = name

\* sorted(S) for a set of names
SortedNames(S) ==
    [k \in 1..Cardinality(S) |->
        CHOOSE x \in S : Cardinality({y \in S : Rank(y) < Rank(x)}) = k - 1]

Reverse(s) == [k \in 1..Len(s) |-> s[Len(s) + 1 - k]]

\* what the tree holds at the path of a directory that may not be listed
\* (os.listdir raises PermissionError); the entries below it are in the tree
\* all the same
Denied == <<"(listing denied)">>

IsDenied(t, d) == d \in DOMAIN t /\ t[d] = Denied

\* os.path.isfile, os.path.isdir, os.listdir on the tree
IsFile(t, p) == p \in DOMAIN t /\ t[p] # Denied
IsDir(t, p) == \E q \in DOMAIN t : Len(q) > Len(p) /\ SubSeq(q, 1, Len(p)) = p
ListDir(t, d) ==
    {q[Len(d) + 1] : q \in {r \in DOMAIN t : Len(r) > Len(d) /\ SubSeq(r, 1, Len(d)) = d}}

\* the path string of the entry p: os.path.join(dirpath, name) along the walk
AbsPath(sep, p) == ParentDir(sep) \o Flatten([k \in 1..Len(p) |-> <<sep, p[k]>>])

\* os.path.relpath(filepath, start=os.path.dirname(root_dir))
RelPath(sep, p) == <<ROOT_NAME>> \o Flatten([k \in 1..Len(p) |-> <<sep, p[k]>>])

----------------------------------------------------------------------------
(* project_generator.py: the serializer *)

\* one line of the structure block: its text and the entry it reports
Line(text, entry, kind) == [text |-> text, entry |-> entry, kind |-> kind]

\* a faulty ListedItem that ignores exclude_files; C9_ExclusionExclusivity
\* tells it from the program's
ListedItemAnyFile(item, xd, xf) ==
    item # PYCACHE /\ <<item>> \notin xd

\* the "Filter out excluded items" test of ProjectStructureGenerator
ListedItem(item, xd, xf) ==
    item # PYCACHE /\ <<item>> \notin xd /\ <<item>> \notin xf

\* a faulty except clause that returns None, which the caller's join drops;
\* C23_DirectoryLineThenMarker tells it from the program's
DeniedListingDropped(prefix, d) == <<>>

\* the except PermissionError clause of ProjectStructureGenerator: the one
\* line f"{prefix}{root_path.name}/ [Permission Denied]"
DeniedListing(prefix, d) ==
    <<Line(prefix \o <<IF d = <<>> THEN ROOT_NAME ELSE d[Len(d)], SLASH, SP, PERMISSION_DENIED>>,
           d, "denied")>>

RECURSIVE ProjectStructureGenerator(_, _, _, _, _)
\* the lines ProjectStructureGenerator returns for directory d of tree t
ProjectStructureGenerator(t, d, prefix, xd, xf) ==
    IF IsDenied(t, d) THEN DeniedListing(prefix, d) ELSE
    LET items == SelectSeq(SortedNames(ListDir(t, d)), LAMBDA item : ListedItem(item, xd, xf))
        dirs == SelectSeq(items, LAMBDA item : IsDir(t, Append(d, item)))
        files == SelectSeq(items, LAMBDA item : IsFile(t, Append(d, item)))
        head == IF prefix = <<>> THEN <<Line(<<ROOT_NAME, SLASH>>, d, "root")>> ELSE <<>>
        dir_lines(i) ==
            LET is_last_dir == i = Len(dirs) /\ Len(files) = 0
                new_prefix == prefix \o <<IF is_last_dir THEN BLANK ELSE PIPE>>
                dir_path == Append(d, dirs[i])
                below == ProjectStructureGenerator(t, dir_path, new_prefix, xd, xf)
            IN  <<Line(prefix \o <<IF is_last_dir THEN ELBOW ELSE TEE, dirs[i], SLASH>>,
                       dir_path, "dir")>>
                \* a directory without listed items returns "", which is joined
                \* in as an empty line
                \o (IF below = <<>> THEN <<Line(<<>>, dir_path, "empty")>> ELSE below)
        file_line(i) ==
            Line(prefix \o <<IF i = Len(files) THEN ELBOW ELSE TEE, files[i]>>,
                 Append(d, files[i]), "file")
    IN  head \o Flatten([i \in 1..Len(dirs) |-> dir_lines(i)])
             \o [i \in 1..Len(files) |-> file_line(i)]

\* the dirnames[:] filter of get_file_contents
WalkedDir(sep, dirpath, name, xd) ==
    name # PYCACHE /\ <<name>> \notin xd /\ PathJoin(sep, dirpath, <<name>>) \notin xd

\* the filenames filter of get_file_contents
WalkedFile(sep, dirpath, name, xf) ==
    <<name>> \notin xf /\ PathJoin(sep, dirpath, <<name>>) \notin xf

RECURSIVE Walk(_, _, _, _, _, _)
\* The (dirpath, filenames) pairs of os.walk(root_dir) from directory d on,
\* top-down, with the lists filtered as get_file_contents filters them.
\* os.walk lists a directory in the order the file system returns its
\* entries: sorted, or (rev) reversed.
Walk(t, sep, d, rev, xd, xf) ==
    LET listed(S) == IF rev THEN Reverse(SortedNames(S)) ELSE SortedNames(S)
        dirpath == AbsPath(sep, d)
        dirnames == SelectSeq(listed({n \in ListDir(t, d) : IsDir(t, Append(d, n))}),
                              LAMBDA n : WalkedDir(sep, dirpath, n, xd))
        filenames == SelectSeq(listed({n \in ListDir(t, d) : IsFile(t, Append(d, n))}),
                               LAMBDA n : WalkedFile(sep, dirpath, n, xf))
    IN  \* scandir raises on a directory that may not be listed; os.walk
        \* without onerror ignores the error and yields nothing for it
        IF IsDenied(t, d) THEN <<>> ELSE
        <<[dir |-> d, filenames |-> filenames]>>
        \o Flatten([i \in 1..Len(dirnames) |->
                       Walk(t, sep, Append(d, dirnames[i]), rev, xd, xf)])

\* "...... FILE START: {filename} ({rel_path}) ......" and its FILE END twin
Marker(keyword, filename, rel_path) ==
    <<RULE, SP, keyword, SP, filename, SP, LP>> \o rel_path \o <<RP, SP, RULE>>

\* what is on disk for a file that does not decode as UTF-8, and for a file
\* that open() or read() raises on
Undecodable == <<"(bytes that are not UTF-8)">>
Unreadable == <<"(unreadable)">>

\* what get_file_contents appends between the markers: the text read, or
\* the placeholder of the except clause taken
ReadOrPlaceholder(content) ==
    IF content = Undecodable THEN <<BINARY_PLACEHOLDER>>
    ELSE IF content = Unreadable THEN <<READ_ERROR>>
    ELSE content

\* a faulty FileOutput that appends the FILE END marker only after a
\* successful read; C16_OneMarkerPairPerFile tells it from the program's
FileOutputEndAfterRead(t, sep, p) ==
    <<<<NL>> \o Marker(FILE_START, p[Len(p)], RelPath(sep, p)) \o <<NL>>,
      ReadOrPlaceholder(t[p])>>
    \o (IF t[p] \in {Undecodable, Unreadable} THEN <<>>
        ELSE <<<<NL>> \o Marker(FILE_END, p[Len(p)], RelPath(sep, p))>>)

\* what get_file_contents appends to output for the file p
FileOutput(t, sep, p) ==
    <<<<NL>> \o Marker(FILE_START, p[Len(p)], RelPath(sep, p)) \o <<NL>>,
      ReadOrPlaceholder(t[p]),
      <<NL>> \o Marker(FILE_END, p[Len(p)], RelPath(sep, p))>>

\* the files get_file_contents writes a section for, in order
WalkedFiles(t, sep, rev, xd, xf) ==
    LET visits == Walk(t, sep, <<>>, rev, xd, xf)
    IN  Flatten([k \in 1..Len(visits) |->
                    [i \in 1..Len(visits[k].filenames) |->
                        Append(visits[k].dir, visits[k].filenames[i])]])

\* get_file_contents(root_dir, exclude_dirs, exclude_files)
get_file_contents(t, sep, rev, xd, xf) ==
    LET visits == Walk(t, sep, <<>>, rev, xd, xf)
        output(v) ==
            IF v.filenames = <<>> THEN <<>>
            ELSE <<<<NL, NL, EQRUN, SP, DIR_LABEL, SP>> \o AbsPath(sep, v.dir) \o <<SP, EQRUN, NL>>>>
                 \o Flatten([i \in 1..Len(v.filenames) |->
                                FileOutput(t, sep, Append(v.dir, v.filenames[i]))])
    IN  JoinWith(Flatten([k \in 1..Len(visits) |-> output(visits[k])]), <<NL>>)

\* the text of the structure block: "\n".join of its lines
StructureText(lines) == JoinWith([k \in 1..Len(lines) |-> lines[k].text], <<NL>>)

\* the output main writes to the document
GeneratedDocument(t, sep, rev, xd, xf) ==
    <<STRUCT_FOR, SP>> \o ParentDir(sep) \o <<NL, NL>>
    \o StructureText(ProjectStructureGenerator(t, <<>>, <<>>, xd, xf))
    \o <<NL, NL, EQRUN, NL, NL>>
    \o <<FILE_CONTENTS, NL>>
    \o get_file_contents(t, sep, rev, xd, xf)

----------------------------------------------------------------------------
(* The destination file system.  A location is the sequence of the names   *)
(* from the file system's root down to it; a name is a sequence of tokens. *)

\* os.path.dirname(os.path.abspath(__file__)): the destination parent
ScriptDir(sep) == <<sep, "dst">>

\* the names of a path string: the pieces between separators, empty ones
\* dropped
Components(sep, path) ==
    LET cuts == Sorted({i \in 1..Len(path) : path[i] \in Separators(sep)})
        from(k) == IF k = 1 THEN 1 ELSE cuts[k - 1] + 1
        upto(k) == IF k = Len(cuts) + 1 THEN Len(path) ELSE cuts[k] - 1
        pieces == [k \in 1..(Len(cuts) + 1) |-> Slice(path, from(k), upto(k))]
    IN  SelectSeq(pieces, LAMBDA piece : piece # <<>>)

RECURSIVE Resolved(_, _)
\* the location the operating system resolves the names to, from the
\* location `at`: ".." steps to the parent
Resolved(at, names) ==
    IF names = <<>> THEN at
    ELSE IF Head(names) = <<DOTDOT>>
         THEN Resolved(IF at = <<>> THEN at ELSE SubSeq(at, 1, Len(at) - 1), Tail(names))
         ELSE Resolved(Append(at, Head(names)), Tail(names))

Location(sep, path) == Resolved(<<>>, Components(sep, path))

\* os.path.exists(path)
Exists(dirs, files, sep, path) ==
    Location(sep, path) \in dirs \cup DOMAIN files \cup {<<>>}

\* os.makedirs(path, exist_ok=True): every missing directory along the path
\* is created, left to right; it raises when a name on the path is a file
MakeDirs(dirs, files, sep, path) ==
    LET names == Components(sep, path)
        along == [k \in 1..Len(names) |-> Resolved(<<>>, SubSeq(names, 1, k))]
        blocked == {k \in 1..Len(names) : along[k] \in DOMAIN files}
        made == {along[k] : k \in {j \in 1..Len(names) : \A b \in blocked : j < b}}
    IN  [ok |-> blocked = {}, dirs |-> dirs \cup (made \ {<<>>})]

\* open(path, 'w').write(content): it raises when the path names no file
\* (it ends with a separator) or names a directory
WriteFile(dirs, files, sep, path, content) ==
    LET at == Location(sep, path)
        ok == /\ path # <<>>
              /\ path[Len(path)] \notin Separators(sep)
              /\ at \notin dirs \cup {<<>>}
              /\ (at # <<>> => SubSeq(at, 1, Len(at) - 1) \in dirs \cup {<<>>})
    IN  [ok |-> ok,
         files |-> IF ok THEN [q \in DOMAIN files \cup {at} |->
                                  IF q = at THEN content ELSE files[q]]
                   ELSE files]

----------------------------------------------------------------------------
(* ProjectRecreator: the materializer *)

\* f"{base_name}_{counter}"
Numbered(base_name, counter) == base_name \o <<"_", ToString(counter)>>

\* a faulty get_unique_directory_name that numbers the root by counting the
\* entries that bear the base name; C8_FirstFreeName tells it from the
\* program's
CountedDirectoryName(dirs, files, sep, root) ==
    Numbered(root \o <<COPY>>,
             1 + Cardinality({at \in dirs \cup DOMAIN files :
                                 /\ Len(at) = Len(Location(sep, ScriptDir(sep))) + 1
                                 /\ StartsWith(at[Len(at)], root \o <<COPY>>)}))

\* get_unique_directory_name: root_directory + "_copy", or its first
\* numbered variant _1, _2, ... that does not exist in the script directory
get_unique_directory_name(dirs, files, sep, root) ==
    LET base_name == root \o <<COPY>>
        taken(name) == Exists(dirs, files, sep, PathJoin(sep, ScriptDir(sep), name))
        \* a directory holds finitely many entries: one of the first
        \* Cardinality + 1 numbered names is free
        most == Cardinality(dirs) + Cardinality(DOMAIN files) + 1
    IN  IF ~taken(base_name) THEN base_name
        ELSE Numbered(base_name,
                      CHOOSE counter \in 1..most :
                          /\ ~taken(Numbered(base_name, counter))
                          /\ \A c \in 1..(counter - 1) : taken(Numbered(base_name, c)))

\* _create_directories: the directories of the destination afterwards
\* (a directory that cannot be created is logged and skipped)
create_directories(dirs, files, sep, target, contents) ==
    LET all_directories ==
            {NormalizeSeps(sep, Dirname(sep, contents[i][1])) :
                i \in {j \in 1..Len(contents) : Dirname(sep, contents[j][1]) # <<>>}}
    IN  dirs \cup UNION {MakeDirs(dirs, files, sep, PathJoin(sep, target, directory)).dirs :
                            directory \in all_directories}

\* what _create_files_complete does for one entry of file_contents
CreateFile(disk, sep, target, file_path, content) ==
    LET normalized_path == NormalizeSeps(sep, file_path)
        full_file_path == PathJoin(sep, target, normalized_path)
        ensured == MakeDirs(disk.dirs, disk.files, sep, Dirname(sep, full_file_path))
        wrote == WriteFile(ensured.dirs, disk.files, sep, full_file_path, content)
        done == ensured.ok /\ wrote.ok
    IN  [dirs |-> ensured.dirs,
         files |-> IF ensured.ok THEN wrote.files ELSE disk.files,
         files_created |-> disk.files_created + (IF done THEN 1 ELSE 0),
         files_failed |-> disk.files_failed + (IF done THEN 0 ELSE 1),
         wrote |-> IF done THEN disk.wrote \cup {Location(sep, full_file_path)}
                   ELSE disk.wrote]

\* main, after create_project returned True: the "Project location" it
\* prints, os.path.join(recreator.script_dir, f"{stats['root_directory']}_copy")
ReportedLocation(sep, root) == PathJoin(sep, ScriptDir(sep), root \o <<COPY>>)

\* a faulty result of create_project that reports failure as soon as one
\* file failed; C13_FailsOnlyOnEmptyMap tells it from the program's
CreateResultAllWritten(done) == done.files_failed = 0

\* what create_project returns once _create_files_complete has returned:
\* return True, whatever the tally
CreateResult(done) == TRUE

RECURSIVE CreateFilesUntilFailure(_, _, _, _)
\* a faulty _create_files_complete that gives up at the first entry it
\* cannot write; C21_EveryEntryAttempted tells it from the program's
CreateFilesUntilFailure(disk, sep, target, contents) ==
    IF contents = <<>> THEN disk
    ELSE LET next == CreateFile(disk, sep, target, contents[1][1], contents[1][2])
         IN  IF next.files_failed > disk.files_failed THEN next
             ELSE CreateFilesUntilFailure(next, sep, target, Tail(contents))

RECURSIVE create_files_complete(_, _, _, _)
\* _create_files_complete: the entries of file_contents in insertion order
create_files_complete(disk, sep, target, contents) ==
    IF contents = <<>> THEN disk
    ELSE create_files_complete(
             CreateFile(disk, sep, target, contents[1][1], contents[1][2]),
             sep, target, Tail(contents))

----------------------------------------------------------------------------
(* Documents written by other encoders, or by hand *)

\* a file section in the layout get_file_contents emits
Section(name, path, content) ==
    <<NL>> \o Marker(FILE_START, name, path) \o <<NL, NL>> \o content
           \o <<NL, NL>> \o Marker(FILE_END, name, path)

\* a file section whose END marker spells the path with "/" where the START
\* marker has "\\": the primary pattern's backreference rejects it
MixedSection(name, path, content) ==
    <<NL>> \o Marker(FILE_START, name, path) \o <<NL, NL>> \o content
           \o <<NL, NL>> \o Marker(FILE_END, name, Replace(path, BSLASH, SLASH))

\* the root label line
RootLine(path) == <<STRUCT_FOR, SP>> \o path \o <<NL, NL>>

path_a == <<"proj", SLASH, "a.txt">>
path_b == <<"proj", SLASH, "sub", SLASH, "b.txt">>
path_b_nt == <<"proj", BSLASH, "sub", BSLASH, "b.txt">>
path_c == <<"a", SLASH, "b", SLASH, "c.txt">>
path_c_nt == <<"a", BSLASH, "b", BSLASH, "c.txt">>
path_up == <<DOTDOT, SLASH, "proj", COPY, SLASH, "a.txt">>
path_dir == <<"proj", SLASH, "sub", SLASH>>
path_a_nt == <<"proj", BSLASH, "a.txt">>
path_x == <<"proj", SLASH, "x.txt">>
path_abs == <<SLASH, "abs", SLASH, "x.txt">>

\* no root line: one section, its path with one or with two directory levels
DocRootlessA == Section("a.txt", path_a, <<"hello">>)
DocRootlessB == Section("b.txt", path_b, <<"world">>)
DocRootlessBnt == Section("b.txt", path_b_nt, <<"world">>)
\* no file section at all
DocNoSections == <<"notes", NL>>
\* the same path declared with either separator
DocSeparators ==
    Section("c.txt", path_c_nt, <<"one">>) \o <<NL>> \o Section("c.txt", path_c, <<"two">>)
\* a FILE START without a FILE END
DocUnclosed == <<NL>> \o Marker(FILE_START, "x.txt", <<"x.txt">>) \o <<NL, NL, "text", NL>>
\* the same path declared twice, in the serializer's layout
DocTwice ==
    RootLine(<<SLASH, "src", SLASH, "proj">>)
    \o Section("a.txt", path_a, <<"one">>) \o <<NL>> \o Section("a.txt", path_a, <<"two">>)
\* the same path declared twice, in a layout only the alternative method reads
DocTwiceMixed ==
    MixedSection("b.txt", path_b_nt, <<"one">>) \o <<NL>>
    \o MixedSection("b.txt", path_b_nt, <<"two">>)
\* the same, each section after a line of "="
DocTwiceMixedRuled ==
    <<EQRUN, NL>> \o MixedSection("b.txt", path_b_nt, <<"one">>) \o <<NL>>
    \o <<EQRUN, NL>> \o MixedSection("b.txt", path_b_nt, <<"two">>)
\* a declared path that climbs out of the output root
DocClimbing ==
    RootLine(<<SLASH, "src", SLASH, "proj">>) \o Section("a.txt", path_up, <<"other">>)
\* a declared path that starts with a separator
DocAbsolute == Section("x.txt", path_abs, <<"other">>)

\* a declared path that names a directory: writing it fails
DocUnwritable == Section("sub", path_dir, <<"x">>)
\* one path that can be written and one that cannot
DocHalfWritable == Section("a.txt", path_a, <<"hello">>) \o <<NL>> \o DocUnwritable
\* the same two, the one that cannot be written first
DocUnwritableFirst == DocUnwritable \o <<NL>> \o Section("a.txt", path_a, <<"hello">>)

\* malformed sections: a FILE START without FILE END, and a header without
\* a parenthesized path
Unclosed == <<NL>> \o Marker(FILE_START, "x.txt", path_x) \o <<NL, NL, "text", NL>>
Pathless == <<NL, RULE, SP, FILE_START, SP, "x.txt", SP, RULE, NL, NL, "text", NL>>
\* a malformed section, then a well-formed one the primary method reads
DocUnclosedThenGood == Unclosed \o Section("a.txt", path_a, <<"hello">>)
DocPathlessThenGood == Pathless \o Section("a.txt", path_a, <<"hello">>)
\* a malformed section, then a well-formed one only the alternative method
\* reads
DocUnclosedThenMixed == Unclosed \o MixedSection("b.txt", path_b_nt, <<"world">>)
DocPathlessThenMixed == Pathless \o MixedSection("b.txt", path_b_nt, <<"world">>)
\* two sections with distinct paths that only the alternative method reads,
\* laid out as get_file_contents lays sections out
DocTwoMixed ==
    MixedSection("a.txt", path_a_nt, <<"hello">>) \o <<NL>>
    \o MixedSection("b.txt", path_b_nt, <<"world">>)
\* a file whose last line ends with a parenthesized group of its own
DocCall == MixedSection("a.txt", path_a_nt, <<"main", LP, RP>>)

HandDocuments ==
    {DocRootlessA, DocRootlessB, DocRootlessBnt, DocNoSections, DocSeparators,
     DocUnclosed, DocTwice, DocTwiceMixed, DocTwiceMixedRuled, DocClimbing, DocAbsolute,
     DocUnwritable, DocHalfWritable, DocUnwritableFirst, DocUnclosedThenGood, DocPathlessThenGood,
     DocUnclosedThenMixed, DocPathlessThenMixed, DocTwoMixed, DocCall}

\* the documents a source file is rewritten to
Rewrites == {DocRootlessB, DocNoSections}

----------------------------------------------------------------------------
(* The inputs *)

MaxFiles == 2       \* files of a scanned tree
MaxRuns == 2        \* create_project calls on one recreator
MaxTaken == 2       \* highest numbered name taken in the destination beforehand

FilePaths == {<<"a.txt">>, <<"sub", "b.txt">>, <<"build", "c.txt">>, <<"skip.log">>}
Contents == {<<"hello">>, <<SP, "x", NL>>}

\* the trees of text files
TextTrees ==
    UNION {[S -> Contents] :
              S \in {T \in SUBSET FilePaths : T # {} /\ Cardinality(T) <= MaxFiles}}

\* the trees scanned: trees of text files, trees in which one file cannot
\* be read as text, and trees in which the directory sub may not be listed
Trees ==
    TextTrees \cup
    {[p \in DOMAIN t |-> IF p = q THEN bad ELSE t[p]] :
        t \in {u \in TextTrees : \A p \in DOMAIN u : u[p] = <<"hello">>},
        q \in FilePaths, bad \in {Undecodable, Unreadable}} \cup
    {[p \in DOMAIN t \cup {<<"sub">>} |-> IF p = <<"sub">> THEN Denied ELSE t[p]] :
        t \in {u \in TextTrees : /\ <<"sub", "b.txt">> \in DOMAIN u
                                  /\ \A p \in DOMAIN u : u[p] = <<"hello">>}}

\* exclusions are typed as bare names or as full paths; those that name
\* nothing in the tree change nothing and are left out
ExcludeDirChoices(sep, t) ==
    SUBSET {d \in {<<"build">>, AbsPath(sep, <<"build">>)} : IsDir(t, <<"build">>)}
ExcludeFileChoices(t) == SUBSET {f \in {<<"skip.log">>} : IsFile(t, f)}

NoTree == [p \in {} |-> <<>>]
NoDocument == <<"(no such file)">>
NoComparator == [constructed |-> FALSE]
None == <<>>

----------------------------------------------------------------------------
(* project_comparator.py: the comparator of two live trees.  A relative    *)
(* path is the sequence of its names; a comparison map is the set of its   *)
(* <<relative path, status>> items.                                        *)

\* Path.suffix.lower() of a file name
Suffix(file_name) ==
    IF file_name \in {"a.txt", "b.txt", "c.txt"} THEN ".txt"
    ELSE IF file_name = "skip.log" THEN ".log"
    ELSE ""

should_exclude_directory(x, dir_name) == dir_name \in x.exclude_dirs

should_exclude_file(x, file_name) ==
    file_name \in x.exclude_files \/ Suffix(file_name) \in x.exclude_extensions

\* scan_project_structure: the keys of structure['directories'] and of
\* structure['files'] that _scan_directory collects for the directory d
ScannedDirectories(x, t, d) ==
    {Append(d, n) : n \in {m \in ListDir(t, d) :
                              IsDir(t, Append(d, m)) /\ ~should_exclude_directory(x, m)}}
ScannedFiles(x, t, d) ==
    {Append(d, n) : n \in {m \in ListDir(t, d) :
                              IsFile(t, Append(d, m)) /\ ~should_exclude_file(x, m)}}

RECURSIVE compare_directories(_, _)
\* _compare_directories on the scans of directory d of the two projects:
\* the items it records in report['directory_comparison']
compare_directories(x, d) ==
    LET dirs1 == ScannedDirectories(x, x.project1, d)
        dirs2 == ScannedDirectories(x, x.project2, d)
    IN  {<<dir_path, "common">> : dir_path \in dirs1 \cap dirs2}
        \cup UNION {compare_directories(x, dir_path) : dir_path \in dirs1 \cap dirs2}
        \cup {<<dir_path, "only_in_project1">> : dir_path \in dirs1 \ dirs2}
        \cup {<<dir_path, "only_in_project2">> : dir_path \in dirs2 \ dirs1}

RECURSIVE compare_files(_, _)
\* _compare_files likewise: the items it records in report['file_comparison']
compare_files(x, d) ==
    LET files1 == ScannedFiles(x, x.project1, d)
        files2 == ScannedFiles(x, x.project2, d)
        common_dirs == ScannedDirectories(x, x.project1, d)
                          \cap ScannedDirectories(x, x.project2, d)
    IN  {<<file_path, "common">> : file_path \in files1 \cap files2}
        \cup {<<file_path, "only_in_project1">> : file_path \in files1 \ files2}
        \cup {<<file_path, "only_in_project2">> : file_path \in files2 \ files1}
        \cup UNION {compare_files(x, dir_path) : dir_path \in common_dirs}

\* _calculate_file_hash: the MD5 digest of the file's bytes, one digest per
\* content
Digest(content) == <<"md5">> \o content

\* compare_files_content(...)['identical']: the lines read from the two
\* files are equal
compare_files_content(x, file_path) == x.project1[file_path] = x.project2[file_path]

\* the common files _compare_files passes to compare_files_content: those
\* whose hashes differ
ContentCompared(x) ==
    {item[1] : item \in {i \in compare_files(x, <<>>) :
                            /\ i[2] = "common"
                            /\ Digest(x.project1[i[1]]) # Digest(x.project2[i[1]])}}

\* report['summary'] as _compare_files leaves it
Summary(x) ==
    [common_files_different_content |->
        Cardinality({f \in ContentCompared(x) : ~compare_files_content(x, f)}),
     common_files_identical_content |->
        Cardinality({f \in ContentCompared(x) : compare_files_content(x, f)})]

\* the projects compared: trees of text files; a.txt has either content
ProjectTrees ==
    {t \in TextTrees : \A p \in DOMAIN t : p # <<"a.txt">> => t[p] = <<"hello">>}

\* the exclusion sets a comparator is built with
ComparatorExclusions ==
    {[exclude_dirs |-> {}, exclude_files |-> {}, exclude_extensions |-> {}],
     [exclude_dirs |-> {"build"}, exclude_files |-> {}, exclude_extensions |-> {}],
     [exclude_dirs |-> {}, exclude_files |-> {"skip.log"}, exclude_extensions |-> {}],
     [exclude_dirs |-> {}, exclude_files |-> {}, exclude_extensions |-> {".txt"}]}

\* self.comparison_report = {}
NoReport ==
    [directory_comparison |-> {}, file_comparison |-> {}, compared |-> FALSE,
     summary |-> [common_files_different_content |-> 0,
                  common_files_identical_content |-> 0]]

----------------------------------------------------------------------------
(* The state machine *)

Init ==
    /\ os_sep \in {SLASH, BSLASH}
    /\ tree = NoTree
    /\ exclude_dirs = {}
    /\ exclude_files = {}
    /\ document = NoDocument
    /\ structure = <<>>
    /\ sections = <<>>
    /\ pc = "START"
    /\ root_directory = None
    /\ file_contents = <<>>
    /\ parse_result = FALSE
    /\ strategy = "none"
    /\ strict_entries = <<>>
    /\ disk_dirs = {Location(os_sep, ScriptDir(os_sep))}
    /\ disk_files = NoTree
    /\ target_root = None
    /\ files_created = 0
    /\ files_failed = 0
    /\ create_result = FALSE
    /\ written = {}
    /\ roots = <<>>
    /\ comparator = NoComparator

\* project_generator.main: scan a tree and save the document
Generate ==
    /\ pc = "START"
    /\ \E t \in Trees, rev \in BOOLEAN :
       \E xd \in ExcludeDirChoices(os_sep, t), xf \in ExcludeFileChoices(t) :
          /\ tree' = t
          /\ exclude_dirs' = xd
          /\ exclude_files' = xf
          /\ structure' = ProjectStructureGenerator(t, <<>>, <<>>, xd, xf)
          /\ sections' = WalkedFiles(t, os_sep, rev, xd, xf)
          /\ document' = GeneratedDocument(t, os_sep, rev, xd, xf)
    /\ pc' = "UNPARSED"
    /\ UNCHANGED <<comparator, os_sep, root_directory, file_contents, parse_result,
                   strategy, strict_entries, disk_dirs, disk_files, target_root, files_created, files_failed,
                   create_result, written, roots>>

\* a document from elsewhere is put in place of the source file
WriteDocument ==
    /\ pc = "START"
    /\ document' \in HandDocuments
    /\ pc' = "UNPARSED"
    /\ UNCHANGED <<comparator, os_sep, tree, exclude_dirs, exclude_files, structure, sections,
                   root_directory, file_contents, parse_result, strategy,
                   strict_entries, disk_dirs, disk_files, target_root, files_created,
                   files_failed, create_result, written, roots>>

\* a faulty parse_source_file that sets the default root name before it
\* looks for the source file; C14_MissingSourceFails tells it from the
\* program's
parse_source_file_default_first ==
    /\ pc \in {"START", "UNPARSED"}
    /\ IF document = NoDocument
       THEN /\ parse_result' = FALSE
            /\ pc' = "PARSE_FAILED"
            /\ root_directory' = <<DEFAULT_ROOT>>
            /\ UNCHANGED <<file_contents, strategy, strict_entries>>
       ELSE \E parsed \in {ParsedFiles(document)} :
              /\ root_directory' = RecoverRoot(os_sep, document)
              /\ file_contents' = DictSetAll(file_contents, parsed.entries)
              /\ strategy' = parsed.strategy
              /\ strict_entries' = parsed.strict
              /\ parse_result' = TRUE
              /\ pc' = "PARSED"
    /\ UNCHANGED <<comparator, os_sep, tree, exclude_dirs, exclude_files, document,
                   structure, sections, disk_dirs, disk_files, target_root,
                   files_created, files_failed, create_result, written, roots>>

\* ProjectRecreator.parse_source_file
parse_source_file ==
    /\ pc \in {"START", "UNPARSED"}
    /\ IF document = NoDocument
       THEN /\ parse_result' = FALSE
            /\ pc' = "PARSE_FAILED"
            /\ UNCHANGED <<root_directory, file_contents, strategy, strict_entries>>
       ELSE \E parsed \in {ParsedFiles(document)} :
              /\ root_directory' = RecoverRoot(os_sep, document)
              /\ file_contents' = DictSetAll(file_contents, parsed.entries)
              /\ strategy' = parsed.strategy
              /\ strict_entries' = parsed.strict
              /\ parse_result' = TRUE
              /\ pc' = "PARSED"
    /\ UNCHANGED <<comparator, os_sep, tree, exclude_dirs, exclude_files, document, structure,
                   sections, disk_dirs, disk_files, target_root, files_created,
                   files_failed, create_result, written, roots>>

\* the source file is rewritten after it was parsed, before anything is
\* created: the same ProjectRecreator will read it again.  One rewrite is
\* modelled, of a document from elsewhere, by one of Rewrites.
RewriteSource ==
    /\ pc = "PARSED"
    /\ roots = <<>>
    /\ document \in HandDocuments \ Rewrites
    /\ document' \in Rewrites
    /\ pc' = "UNPARSED"
    /\ UNCHANGED <<comparator, os_sep, tree, exclude_dirs, exclude_files, structure, sections,
                   root_directory, file_contents, parse_result, strategy,
                   strict_entries, disk_dirs, disk_files, target_root, files_created,
                   files_failed, create_result, written, roots>>

\* an entry named like an output root is already in the destination
TakeName ==
    /\ pc = "PARSED"
    /\ roots = <<>>
    /\ \E k \in 0..MaxTaken :
          LET base_name == root_directory \o <<COPY>>
              name == IF k = 0 THEN base_name ELSE Numbered(base_name, k)
              at == Location(os_sep, PathJoin(os_sep, ScriptDir(os_sep), name))
          IN  /\ at \notin disk_dirs
              /\ disk_dirs' = disk_dirs \cup {at}
    /\ UNCHANGED <<comparator, os_sep, tree, exclude_dirs, exclude_files, document, structure,
                   sections, pc, root_directory, file_contents, parse_result,
                   strategy, strict_entries, disk_files, target_root, files_created, files_failed,
                   create_result, written, roots>>

\* a faulty create_project that does not test file_contents: it picks a
\* root name and reports success for an empty map;
\* C22_CreateOnlyAfterParsedFiles tells it from the program's
create_project_unchecked ==
    /\ pc \in {"PARSED", "MATERIALIZED"}
    /\ Len(roots) < MaxRuns
    /\ \E target \in {PathJoin(os_sep, ScriptDir(os_sep),
                            get_unique_directory_name(disk_dirs, disk_files,
                                                      os_sep, root_directory))} :
       \E made \in {create_directories(disk_dirs, disk_files, os_sep, target,
                                       file_contents)} :
       \E done \in {create_files_complete(
                        [dirs |-> made, files |-> disk_files, files_created |-> 0,
                         files_failed |-> 0, wrote |-> {}],
                        os_sep, target, file_contents)} :
         /\ target_root' = Location(os_sep, target)
         /\ disk_dirs' = done.dirs
         /\ disk_files' = done.files
         /\ files_created' = done.files_created
         /\ files_failed' = done.files_failed
         /\ written' = (done.dirs \ disk_dirs) \cup done.wrote
         /\ roots' = Append(roots, Location(os_sep, target))
         /\ create_result' = CreateResult(done)
         /\ pc' = "MATERIALIZED"
    /\ UNCHANGED <<comparator, os_sep, tree, exclude_dirs, exclude_files, document, structure,
                   sections, root_directory, file_contents, parse_result, strategy,
                   strict_entries>>

\* ProjectRecreator.create_project
create_project ==
    /\ pc \in {"PARSED", "MATERIALIZED"}
    /\ Len(roots) < MaxRuns
    /\ IF file_contents = <<>>
       THEN /\ create_result' = FALSE
            /\ pc' = "CREATE_FAILED"
            /\ UNCHANGED <<disk_dirs, disk_files, target_root, files_created,
                           files_failed, written, roots>>
       ELSE \E target \in {PathJoin(os_sep, ScriptDir(os_sep),
                               get_unique_directory_name(disk_dirs, disk_files,
                                                         os_sep, root_directory))} :
            \E made \in {create_directories(disk_dirs, disk_files, os_sep, target,
                                            file_contents)} :
            \E done \in {create_files_complete(
                             [dirs |-> made, files |-> disk_files, files_created |-> 0,
                              files_failed |-> 0, wrote |-> {}],
                             os_sep, target, file_contents)} :
              /\ target_root' = Location(os_sep, target)
              /\ disk_dirs' = done.dirs
              /\ disk_files' = done.files
              /\ files_created' = done.files_created
              /\ files_failed' = done.files_failed
              /\ written' = (done.dirs \ disk_dirs) \cup done.wrote
              /\ roots' = Append(roots, Location(os_sep, target))
              /\ create_result' = CreateResult(done)
              /\ pc' = "MATERIALIZED"
    /\ UNCHANGED <<comparator, os_sep, tree, exclude_dirs, exclude_files, document, structure,
                   sections, root_directory, file_contents, parse_result, strategy,
                   strict_entries>>

\* create_project up to "target_root = os.path.join(...)": the name is
\* chosen, nothing is created yet
probe_root ==
    /\ pc = "PARSED"
    /\ file_contents # <<>>
    /\ target_root' = Location(os_sep, PathJoin(os_sep, ScriptDir(os_sep),
                           get_unique_directory_name(disk_dirs, disk_files,
                                                     os_sep, root_directory)))
    /\ pc' = "PROBED"
    /\ UNCHANGED <<comparator, os_sep, tree, exclude_dirs, exclude_files, document, structure,
                   sections, root_directory, file_contents, parse_result, strategy,
                   strict_entries, disk_dirs, disk_files, files_created, files_failed,
                   create_result, written, roots>>

\* another process that parsed the same document runs its create_project,
\* all of it, against the same destination while this one is between its
\* probe and its first makedirs
concurrent_create_project ==
    /\ pc = "PROBED"
    /\ roots = <<>>
    /\ \E target \in {PathJoin(os_sep, ScriptDir(os_sep),
                            get_unique_directory_name(disk_dirs, disk_files,
                                                      os_sep, root_directory))} :
       \E made \in {create_directories(disk_dirs, disk_files, os_sep, target,
                                       file_contents)} :
       \E done \in {create_files_complete(
                        [dirs |-> made, files |-> disk_files, files_created |-> 0,
                         files_failed |-> 0, wrote |-> {}],
                        os_sep, target, file_contents)} :
         /\ disk_dirs' = done.dirs
         /\ disk_files' = done.files
         /\ roots' = Append(roots, Location(os_sep, target))
    /\ UNCHANGED <<comparator, os_sep, tree, exclude_dirs, exclude_files, document, structure,
                   sections, pc, root_directory, file_contents, parse_result, strategy,
                   strict_entries, target_root, files_created, files_failed,
                   create_result, written>>

\* the rest of create_project, from _create_directories on, with the name
\* chosen at the probe
create_at_probed ==
    /\ pc = "PROBED"
    /\ \E target \in {PathJoin(os_sep, ScriptDir(os_sep), target_root[Len(target_root)])} :
       \E made \in {create_directories(disk_dirs, disk_files, os_sep, target,
                                       file_contents)} :
       \E done \in {create_files_complete(
                        [dirs |-> made, files |-> disk_files, files_created |-> 0,
                         files_failed |-> 0, wrote |-> {}],
                        os_sep, target, file_contents)} :
         /\ disk_dirs' = done.dirs
         /\ disk_files' = done.files
         /\ files_created' = done.files_created
         /\ files_failed' = done.files_failed
         /\ written' = (done.dirs \ disk_dirs) \cup done.wrote
         /\ roots' = Append(roots, target_root)
         /\ create_result' = CreateResult(done)
         /\ pc' = "MATERIALIZED"
    /\ UNCHANGED <<comparator, os_sep, tree, exclude_dirs, exclude_files, document, structure,
                   sections, root_directory, file_contents, parse_result, strategy,
                   strict_entries, target_root>>

\* ProjectComparator.__init__
NewComparator ==
    /\ ~comparator.constructed
    /\ \E t1 \in ProjectTrees, t2 \in ProjectTrees, excl \in ComparatorExclusions :
          comparator' = [constructed |-> TRUE,
                         project1 |-> t1,
                         project2 |-> t2,
                         exclude_dirs |-> excl.exclude_dirs,
                         exclude_files |-> excl.exclude_files,
                         exclude_extensions |-> excl.exclude_extensions,
                         comparison_report |-> NoReport]
    /\ UNCHANGED <<os_sep, tree, exclude_dirs, exclude_files, document, structure,
                   sections, pc, root_directory, file_contents, parse_result,
                   strategy, strict_entries, disk_dirs, disk_files, target_root,
                   files_created, files_failed, create_result, written, roots>>

\* ProjectComparator.compare_projects
compare_projects ==
    /\ comparator.constructed
    /\ ~comparator.comparison_report.compared
    /\ comparator' =
          [comparator EXCEPT !.comparison_report =
              [directory_comparison |-> compare_directories(comparator, <<>>),
               file_comparison |-> compare_files(comparator, <<>>),
               summary |-> Summary(comparator),
               compared |-> TRUE]]
    /\ UNCHANGED <<os_sep, tree, exclude_dirs, exclude_files, document, structure,
                   sections, pc, root_directory, file_contents, parse_result,
                   strategy, strict_entries, disk_dirs, disk_files, target_root,
                   files_created, files_failed, create_result, written, roots>>

Next ==
    \/ Generate
    \/ WriteDocument
    \/ parse_source_file
    \/ TakeName
    \/ create_project

Spec == Init /\ [][Next]_vars

\* one ProjectRecreator that is made to parse its source file again after
\* the file was rewritten (main parses once)
NextReparse ==
    \/ WriteDocument
    \/ parse_source_file
    \/ RewriteSource
    \/ create_project

SpecReparse == Init /\ [][NextReparse]_vars

\* two processes that create the same parsed project in one destination:
\* one after the other (create_project twice), or the second between the
\* probe and the creation of the first
NextRace ==
    \/ WriteDocument
    \/ parse_source_file
    \/ TakeName
    \/ create_project
    \/ probe_root
    \/ concurrent_create_project
    \/ create_at_probed

SpecRace == Init /\ [][NextRace]_vars

\* the comparator is a tool of its own
NextCompare ==
    \/ NewComparator
    \/ compare_projects

SpecCompare == Init /\ [][NextCompare]_vars

----------------------------------------------------------------------------
(* Properties *)

\* the names of a tree path as names of a location
Names(p) == [k \in 1..Len(p) |-> <<p[k]>>]

\* the location `at` lies below the directory `root`
Under(root, at) == Len(at) > Len(root) /\ SubSeq(at, 1, Len(root)) = root

\* the location `at` ends with the names `tail`
EndsWith(at, tail) ==
    Len(at) >= Len(tail) /\ SubSeq(at, Len(at) - Len(tail) + 1, Len(at)) = tail

\* the n-th candidate name of an output root: base, base_1, base_2, ...
RootName(root, n) == IF n = 0 THEN root \o <<COPY>> ELSE Numbered(root \o <<COPY>>, n)

\* an entry with the n-th candidate name is in the destination
Taken(dirs, files, n) ==
    Location(os_sep, ScriptDir(os_sep)) \o <<RootName(root_directory, n)>>
        \in dirs \cup DOMAIN files

\* the number n of the candidate name the output root `at` bears
SuffixOf(at) ==
    CHOOSE n \in 0..(Cardinality(disk_dirs) + 1) : at[Len(at)] = RootName(root_directory, n)

\* the file p of the tree lies in a directory named in exclude_dirs or is
\* itself named in exclude_files
ExcludedByName(p) ==
    \/ \E k \in 1..(Len(p) - 1) : <<p[k]>> \in exclude_dirs
    \/ <<p[Len(p)]>> \in exclude_files

\* the directory d of the tree is named in exclude_dirs, by name or by path
ExcludedDir(d) == <<d[Len(d)]>> \in exclude_dirs \/ AbsPath(os_sep, d) \in exclude_dirs

\* the entries of the structure block and of the contents block
Reported == {structure[i].entry : i \in 1..Len(structure)} \cup Range(sections)

\* every key of file_contents begins with the root name
KeysCarryRoot ==
    /\ file_contents # <<>>
    /\ \A i \in 1..Len(file_contents) :
          LET names == Components(BSLASH, file_contents[i][1])
          IN  Len(names) >= 2 /\ names[1] = root_directory

\* the path the first FILE START marker of a document declares
FirstDeclaredPath(doc) ==
    LET rest == Slice(doc, Find(doc, <<FILE_START>>), Len(doc))
    IN  Slice(rest, Find(rest, <<LP>>) + 1, Find(rest, <<RP>>) - 1)

\* C1: round-trip identity.  After serializing a tree without exclusions,
\* parsing the document and materializing it, every file of the tree is
\* below the output root with exactly the content it has in the tree, also
\* when the content begins or ends with whitespace.
C1_RoundTripIdentity ==
    (/\ pc = "MATERIALIZED" /\ tree # NoTree /\ exclude_dirs = {} /\ exclude_files = {}
     /\ \A p \in DOMAIN tree : tree[p] \notin {Undecodable, Unreadable, Denied})
    => \A p \in DOMAIN tree :
          \E at \in DOMAIN disk_files :
              /\ Under(target_root, at)
              /\ EndsWith(at, Names(p))
              /\ disk_files[at] = tree[p]

\* C2: when every key of the parsed map carries the root name as its first
\* component, each file is written at the output root joined with the path
\* below the root name (the root name is not repeated under the output
\* root), every file is counted as created and none as failed.
C2_FilesBelowOutputRoot ==
    (pc = "MATERIALIZED" /\ KeysCarryRoot)
    => /\ \A i \in 1..Len(file_contents) :
             LET at == target_root \o Tail(Components(BSLASH, file_contents[i][1]))
             IN  at \in DOMAIN disk_files /\ disk_files[at] = file_contents[i][2]
       /\ files_created = Len(file_contents)
       /\ files_failed = 0

\* C3: separator normalization.  The parser stores every path under a key
\* normalized to the platform separator, so that two declared paths that
\* differ only in the separator (a\b\c.txt and a/b/c.txt) share one key.
C3_KeysNormalized ==
    pc = "PARSED"
    => \A i, j \in 1..Len(file_contents) :
          /\ file_contents[i][1] = NormalizeSeps(os_sep, file_contents[i][1])
          /\ (NormalizeSeps(os_sep, file_contents[i][1])
                = NormalizeSeps(os_sep, file_contents[j][1]) => i = j)

C5_LastWriteWins ==
    (pc = "PARSED" /\ document \in {DocTwice, DocTwiceMixed, DocTwiceMixedRuled})
    => /\ Len(file_contents) = 1
       /\ file_contents[1][2] = <<"two">>

\* C6: root-name recovery.  Without a root line, the root name is the first
\* component of the first declared path (with either separator); the
\* default name is used only when the document has no file section.
C6_RootFromFirstPath ==
    (pc = "PARSED" /\ STRUCT_FOR \notin Range(document))
    => IF FILE_START \in Range(document)
       THEN LET names == Components(BSLASH, FirstDeclaredPath(document))
            IN  Len(names) >= 2 => root_directory = names[1]
       ELSE root_directory = <<DEFAULT_ROOT>>

\* C7: the output roots of successive create_project runs are distinct, and
\* a run creates and writes nothing in the output root of an earlier run.
C7_EarlierRootsUntouched ==
    \A i, j \in 1..Len(roots) :
        i < j => /\ roots[i] # roots[j]
                 /\ (j = Len(roots)
                       => \A at \in written : at # roots[i] /\ ~Under(roots[i], at))

\* C8 as stated: the output root of a run bears the numeric suffix one
\* greater than the number of entries with the same base name that were in
\* the destination before the run.
C8_SuffixCountsPriorRoots ==
    pc = "MATERIALIZED"
    => SuffixOf(target_root)
         = 1 + Cardinality({n \in 0..(Cardinality(disk_dirs) + 1) :
                               /\ Taken(disk_dirs, disk_files, n)
                               /\ n # SuffixOf(target_root)})

\* C8, amended: a run takes the first name of the sequence base, base_1,
\* base_2, ... for which the destination holds no entry when the run
\* probes: the unsuffixed base name when it is free (so on the first run
\* into an empty destination), else the least k >= 1 with base_k free.
\* The suffix equals the number of prior roots only when their names are
\* contiguous.
C8_FirstFreeName ==
    [][roots' # roots
         => LET k == SuffixOf(target_root')
            IN  /\ ~Taken(disk_dirs, disk_files, k)
                /\ \A n \in 0..(k - 1) : Taken(disk_dirs, disk_files, n)]_vars

\* C8 witness: base and base_2 were taken, and the run chose base_1 although
\* two roots with the base name were there
C8_GapFilled ==
    /\ pc = "MATERIALIZED"
    /\ Len(roots) = 1
    /\ SuffixOf(target_root) = 1
    /\ Taken(disk_dirs, disk_files, 0)
    /\ Taken(disk_dirs, disk_files, 2)

\* C9: exclusion exclusivity for bare names.  A file of the tree that lies
\* in a directory named in exclude_dirs, or is itself named in
\* exclude_files, appears neither in the structure block (nor does any
\* directory above it that is excluded) nor in a FILE section of the
\* contents block, nor as a key of the parsed map, nor in the materialized
\* output.
C9_ExclusionExclusivity ==
    \A p \in DOMAIN tree :
        ExcludedByName(p)
        => /\ p \notin Reported
           /\ \A k \in 1..(Len(p) - 1) :
                 (\E m \in 1..k : <<p[m]>> \in exclude_dirs)
                    => SubSeq(p, 1, k) \notin Reported
           /\ RelPath(os_sep, p) \notin DictKeys(file_contents)
           /\ \A at \in DOMAIN disk_files \cup disk_dirs : ~EndsWith(at, Names(p))

\* C9 witness: a tree with an excluded file and a file that is not excluded
\* has been materialized
C9_ExcludedAndMaterialized ==
    /\ pc = "MATERIALIZED"
    /\ \E p \in DOMAIN tree : ExcludedByName(p) /\ Len(p) = 2
    /\ \E p \in DOMAIN tree : ~ExcludedByName(p) /\ p \in Range(sections)
    /\ disk_files # NoTree

\* C10: a directory that matches exclude_dirs by its bare name or by its full
\* path is skipped entirely: neither it nor anything below it is reported
\* in the structure block or in the contents block.
C10_ExcludedDirSkipped ==
    \A p \in DOMAIN tree :
        \A k \in 1..(Len(p) - 1) :
            ExcludedDir(SubSeq(p, 1, k))
            => /\ p \notin Reported
               /\ SubSeq(p, 1, k) \notin Reported

\* C11: fallback monotonicity.  The alternative method has run if and only
\* if the primary method stored no file; when the primary method stored
\* N >= 1 files, file_contents holds exactly what it stored, every path with
\* the content of its last match.
C11_FallbackOnlyAfterZero ==
    pc = "PARSED"
    => /\ strategy = "alternative" <=> strict_entries = <<>>
       /\ strategy = "strict" <=> strict_entries # <<>>
       /\ strict_entries # <<>>
             => /\ Range(file_contents) \subseteq Range(strict_entries)
                /\ DictKeys(file_contents) = {strict_entries[i][1] : i \in DOMAIN strict_entries}

\* C11 witness: a document with two sections was parsed by the primary
\* method alone
C11_StrictParsedTwo ==
    pc = "PARSED" /\ Len(strict_entries) = 2 /\ strategy = "strict" /\ Len(file_contents) = 2

\* C12: create_project returns success exactly when at least one file was
\* written: also when other files failed, and not when the map is non-empty
\* but every write failed.
C12_SuccessIffFileWritten ==
    pc \in {"MATERIALIZED", "CREATE_FAILED"} => (create_result <=> files_created >= 1)

\* C13: create_project returns failure only when the file map is empty
\* (errors of directory creation and of single files never make it fail),
\* and a create_project that fails leaves the destination as it was: no
\* directory, no file, no output root.
C13_FailsOnlyOnEmptyMap ==
    /\ [](pc = "CREATE_FAILED" => file_contents = <<>> /\ ~create_result)
    /\ [](pc = "MATERIALIZED" => file_contents # <<>> /\ create_result)
    /\ [][pc' = "CREATE_FAILED"
            => UNCHANGED <<disk_dirs, disk_files, target_root, roots, written>>]_vars

\* C13 witness: a run in which every file failed has returned success
C13_AllFailedYetSuccess ==
    /\ pc = "MATERIALIZED"
    /\ files_created = 0
    /\ files_failed = Len(file_contents)
    /\ create_result

\* C14: when the source document does not exist as parse_source_file is
\* called, the call returns failure, leaves root_directory and
\* file_contents as they were and creates nothing in the destination; and
\* parse_source_file fails in no other case.
C14_MissingSourceFails ==
    /\ [][(document = NoDocument /\ pc = "START" /\ pc' \notin {"START", "UNPARSED"})
            => pc' = "PARSE_FAILED"]_vars
    /\ [][pc' = "PARSE_FAILED"
            => /\ document = NoDocument
               /\ ~parse_result'
               /\ UNCHANGED <<root_directory, file_contents, disk_dirs, disk_files,
                              roots, written>>]_vars

\* C14 witness: parse_source_file has failed on a missing source, with
\* nothing recovered and nothing created
C14_SourceMissing ==
    /\ pc = "PARSE_FAILED"
    /\ document = NoDocument
    /\ ~parse_result
    /\ root_directory = None
    /\ file_contents = <<>>
    /\ disk_files = NoTree

\* C15: a malformed section (a header without a parenthesized path, or a
\* FILE START without FILE END) is skipped and does not abort parsing: the
\* well-formed section that follows it is recovered with its own content,
\* by the primary method and by the alternative method.
C15_SectionAfterMalformedKept ==
    /\ (pc = "PARSED" /\ document \in {DocUnclosedThenGood, DocPathlessThenGood})
          => <<path_a, <<"hello">>>> \in Range(file_contents)
    /\ (pc = "PARSED" /\ document \in {DocUnclosedThenMixed, DocPathlessThenMixed})
          => <<path_b_nt, <<"world">>>> \in Range(file_contents)

\* C18: when the primary method stores no file, the alternative method cuts
\* the document at every FILE START marker and recovers one entry for each
\* section that has a parenthesized path and a following FILE END marker:
\* a document with k such sections with distinct paths yields k entries,
\* also in the layout get_file_contents emits.
C18_OneEntryPerSection ==
    /\ (pc = "PARSED" /\ document = DocCall)
          => strategy = "alternative" /\ DictKeys(file_contents) = {path_a_nt}
    /\ (pc = "PARSED" /\ document = DocTwoMixed)
          => /\ strategy = "alternative"
             /\ file_contents = <<<<path_a_nt, <<"hello">>>>, <<path_b_nt, <<"world">>>>>>

\* C19: the cleanup step of the alternative method removes only a path
\* fragment leaked from a marker: content whose last line ends with a
\* parenthesized group of the file's own text is stored as it is, apart
\* from the trimming of whitespace.
C19_OwnParenthesesKept ==
    (pc = "PARSED" /\ document = DocCall)
    => file_contents = <<<<path_a_nt, <<"main", LP, RP>>>>>>

\* the positions at which the tokens `sub` begin in the text s
Occurrences(s, sub) ==
    {i \in 1..(Len(s) - Len(sub) + 1) : SubSeq(s, i, i + Len(sub) - 1) = sub}

\* the line of the structure block that reports the entry p
StructureLineOf(p) == CHOOSE i \in 1..Len(structure) : structure[i].entry = p

\* C16: for every included file, be it read as text, undecodable (binary
\* placeholder) or unreadable (read error), the document holds exactly one
\* FILE START marker and, after it, exactly one FILE END marker with the
\* same file name and relative path, and no marker of any file between
\* the two.
C16_OneMarkerPairPerFile ==
    (pc = "UNPARSED" /\ tree # NoTree)
    => \A k \in 1..Len(sections) :
          LET p == sections[k]
              starts == Occurrences(document, Marker(FILE_START, p[Len(p)], RelPath(os_sep, p)))
              ends == Occurrences(document, Marker(FILE_END, p[Len(p)], RelPath(os_sep, p)))
          IN  /\ Cardinality(starts) = 1
              /\ Cardinality(ends) = 1
              /\ \A i \in starts : \A j \in ends :
                    /\ i < j
                    /\ \A m \in (i + 3)..j : document[m] \notin {FILE_START, FILE_END}

\* C16 witness: a document with the section of an undecodable or unreadable
\* file next to the section of a text file has been written
C16_PlaceholderSectionWritten ==
    /\ pc = "UNPARSED"
    /\ Len(sections) = 2
    /\ \E k \in 1..2 : tree[sections[k]] \in {Undecodable, Unreadable}
    /\ \E k \in 1..2 : tree[sections[k]] \notin {Undecodable, Unreadable}
    /\ BINARY_PLACEHOLDER \in Range(document) \/ READ_ERROR \in Range(document)

\* C20: the file sections of the contents block are in the order of the
\* structure block: the files below a directory's subdirectories before the
\* directory's own files, directories and files in sorted order.
C20_ContentsInStructureOrder ==
    (pc = "UNPARSED" /\ tree # NoTree)
    => \A i, j \in 1..Len(sections) :
          i < j => StructureLineOf(sections[i]) < StructureLineOf(sections[j])

\* the entry p of a compared project is not excluded: neither it nor a
\* directory above it bears an excluded name, and a file's extension is not
\* excluded
Compared(p, is_file) ==
    /\ \A k \in 1..(Len(p) - 1) : p[k] \notin comparator.exclude_dirs
    /\ IF is_file THEN ~should_exclude_file(comparator, p[Len(p)])
       ELSE p[Len(p)] \notin comparator.exclude_dirs

\* the directories of a tree
DirsOf(t) == UNION {{SubSeq(p, 1, k) : k \in 1..(Len(p) - 1)} : p \in DOMAIN t}

\* the status of an entry that is in the set of the first or of the second
\* project
StatusIn(p, in1, in2) ==
    IF p \in in1 /\ p \in in2 THEN "common"
    ELSE IF p \in in1 THEN "only_in_project1" ELSE "only_in_project2"

\* C17: after compare_projects, every file and every directory that is not
\* excluded and exists in either project, at any depth (also below a
\* directory that only one project has), has exactly one item in
\* file_comparison or directory_comparison, with status common iff it is
\* in both projects, only_in_project1 iff only in the first and
\* only_in_project2 iff only in the second.
C17_EveryEntryClassified ==
    (comparator.constructed /\ comparator.comparison_report.compared)
    => LET report == comparator.comparison_report
           files1 == {p \in DOMAIN comparator.project1 : Compared(p, TRUE)}
           files2 == {p \in DOMAIN comparator.project2 : Compared(p, TRUE)}
           dirs1 == {d \in DirsOf(comparator.project1) : Compared(d, FALSE)}
           dirs2 == {d \in DirsOf(comparator.project2) : Compared(d, FALSE)}
       IN  /\ report.file_comparison
                = {<<p, StatusIn(p, files1, files2)>> : p \in files1 \cup files2}
           /\ report.directory_comparison
                = {<<d, StatusIn(d, dirs1, dirs2)>> : d \in dirs1 \cup dirs2}

\* C21: in _create_files_complete a failed write does not end the loop:
\* every entry of file_contents is attempted once, the ones after a failed
\* entry too, and at the end files_created + files_failed is the number of
\* entries.
C21_EveryEntryAttempted ==
    pc = "MATERIALIZED"
    => files_created + files_failed = Len(file_contents)

\* a run in which the first entry failed and a later one was written
C21_WrittenAfterFailure ==
    /\ pc = "MATERIALIZED"
    /\ Len(file_contents) = 2
    /\ file_contents[1][1] = path_dir
    /\ files_failed = 1
    /\ files_created = 1
    /\ target_root \o <<<<"proj">>, <<"a.txt">>>> \in DOMAIN disk_files

\* C22: create_project picks and creates an output root only after a
\* parse_source_file that returned success and left at least one file in
\* file_contents: a step that selects a root or reaches MATERIALIZED starts
\* from PARSED (or from an earlier MATERIALIZED) with a non-empty map, and
\* after a failed parse or a parse of zero files no root is ever selected
\* and nothing is written.
C22_CreateOnlyAfterParsedFiles ==
    /\ [][(pc' = "MATERIALIZED" \/ roots' # roots \/ target_root' # target_root)
            => /\ pc \in {"PARSED", "MATERIALIZED"}
               /\ parse_result
               /\ file_contents # <<>>]_vars
    /\ []((pc \in {"PARSE_FAILED", "CREATE_FAILED"} \/ (pc = "PARSED" /\ file_contents = <<>>))
            => /\ roots = <<>>
               /\ target_root = None
               /\ written = {}
               /\ disk_files = NoTree)

\* create_project was called after a parse that found no file, and nothing
\* was selected or written
C22_ZeroFilesNothingCreated ==
    /\ pc = "CREATE_FAILED"
    /\ parse_result
    /\ document = DocNoSections
    /\ roots = <<>>
    /\ disk_files = NoTree

\* the indices of the structure lines that report the entry p
LinesOf(p) == {i \in 1..Len(structure) : structure[i].entry = p}

\* the directories of the scanned tree that may not be listed
DeniedDirs == {d \in DOMAIN tree : tree[d] = Denied}

\* C23 as stated: when listing a subdirectory raises a permission error,
\* the structure block has exactly one line for that directory, the denied
\* marker, none for its descendants, and the lines of all its siblings.
C23_OneLineForDenied ==
    pc = "UNPARSED"
    => \A d \in DeniedDirs :
          /\ Cardinality(LinesOf(d)) = 1
          /\ \A i \in LinesOf(d) : structure[i].kind = "denied"
          /\ \A i \in 1..Len(structure) : ~Under(d, structure[i].entry)

\* C23 amended: the structure block has the directory's own line, right
\* after it exactly one denied marker line that repeats the directory's
\* name, no line for a descendant, and a line for every sibling directory
\* and file that is not excluded.
C23_DirectoryLineThenMarker ==
    pc = "UNPARSED"
    => \A d \in DeniedDirs :
          /\ Cardinality(LinesOf(d)) = 2
          /\ \E i \in LinesOf(d) :
                /\ structure[i].kind = "dir"
                /\ i + 1 \in LinesOf(d)
                /\ structure[i + 1].kind = "denied"
                /\ EndsWith(structure[i + 1].text, <<d[Len(d)], SLASH, SP, PERMISSION_DENIED>>)
          /\ \A i \in 1..Len(structure) : ~Under(d, structure[i].entry)
          /\ \A n \in ListDir(tree, SubSeq(d, 1, Len(d) - 1)) :
                (<<n>> \notin exclude_dirs \cup exclude_files)
                => LinesOf(Append(SubSeq(d, 1, Len(d) - 1), n)) # {}

\* a denied directory with a file below it, next to a sibling directory that
\* is rendered with its file
C23_DeniedAmongSiblings ==
    /\ pc = "UNPARSED"
    /\ DeniedDirs = {<<"sub">>}
    /\ <<"sub", "b.txt">> \in DOMAIN tree
    /\ \E p \in DOMAIN tree : Len(p) = 2 /\ p[1] = "build" /\ LinesOf(p) # {}
    /\ LinesOf(<<"build">>) # {}

\* C25: whatever paths the document declares, also paths with ".."
\* components and paths that start with a separator, every directory
\* create_project creates and every file it writes is the output root or
\* lies below it.
C25_NothingOutsideOutputRoot ==
    pc = "MATERIALIZED"
    => \A at \in written : at = target_root \/ Under(target_root, at)

\* the paths of the sections parse_source_file recovers from a document
SectionPaths(doc) == DictKeys(ParsedFiles(doc).entries)

\* C28: after any sequence of parse_source_file calls on one
\* ProjectRecreator, file_contents holds exactly the sections of the
\* document the latest successful parse read; nothing an earlier parse read
\* stays in the map that create_project materializes.
C28_OnlyLatestParse ==
    (pc \in {"PARSED", "MATERIALIZED"} /\ parse_result)
    => DictKeys(file_contents) = SectionPaths(document)

\* C24: between the probe of get_unique_directory_name and the first
\* makedirs another create_project can select the same output root (the
\* two then write into one directory); a create_project that runs from its
\* probe to its end with no other in between selects a root that none
\* before it selected.
C24_SequentialRootsDistinct ==
    [][(pc \in {"PARSED", "MATERIALIZED"} /\ roots' # roots)
          => \A i \in 1..Len(roots) : roots[i] # roots'[Len(roots')]]_vars

\* the race: two invocations whose steps interleaved selected one root
C24_RacedIntoOneRoot ==
    /\ pc = "MATERIALIZED"
    /\ Len(roots) = 2
    /\ roots[1] = roots[2]
    /\ Under(roots[1], Location(os_sep, ScriptDir(os_sep)) \o <<roots[1][Len(roots[1])], <<"proj">>, <<"a.txt">>>>)
    /\ document = DocRootlessA

\* the files the structure block lists
StructureFiles == {structure[i].entry : i \in {j \in 1..Len(structure) : structure[j].kind = "file"}}

\* C26: for every tree and every pair of exclusion sets, the files the
\* structure block lists are the files that have a FILE section in the
\* contents block, also when an exclusion is given as a full path.
C26_StructureFilesAreContentsFiles ==
    (pc = "UNPARSED" /\ tree # NoTree) => StructureFiles = Range(sections)

\* C27: when _create_files_complete has finished and everything it wrote is
\* below the output root, files_created is the number of distinct files
\* below the output root, also when two keys of the map differ only in the
\* separator and have different contents.
C27_CreatedCountsDistinctFiles ==
    (/\ pc = "MATERIALIZED"
     /\ \A at \in written : at = target_root \/ Under(target_root, at))
    => files_created = Cardinality({at \in DOMAIN disk_files : Under(target_root, at)})

\* C29: after compare_projects the summary counts every common file once:
\* common_files_identical_content + common_files_different_content is the
\* number of file_comparison entries with status common, and a common file
\* with the same content (the same hash) in both projects is counted in
\* common_files_identical_content.
C29_SummaryCountsCommonFiles ==
    (comparator.constructed /\ comparator.comparison_report.compared)
    => LET report == comparator.comparison_report
           common == {item \in report.file_comparison : item[2] = "common"}
       IN  /\ report.summary.common_files_identical_content
                + report.summary.common_files_different_content = Cardinality(common)
           /\ report.summary.common_files_identical_content
                = Cardinality({item \in common :
                     comparator.project1[item[1]] = comparator.project2[item[1]]})

\* C30: after a successful create_project in main, the project location
\* reported to the user is the directory create_project created, also when
\* root_name + "_copy" existed already and a numbered root was chosen.
C30_ReportedLocationIsOutputRoot ==
    (pc = "MATERIALIZED" /\ create_result /\ Len(roots) = 1)
    => Location(os_sep, ReportedLocation(os_sep, root_directory)) = target_root

====
